---- MODULE Spec2Model ----
(***************************************************************************)
(* The upload portal of src/frontend_mysql/app.py: login, the CSV upload   *)
(* handler (validation, schema reconciliation, table creation, bulk        *)
(* INSERT IGNORE, registry append) and the registry view, over a MySQL     *)
(* database holding the target tables and the `_uploaded_tables` registry. *)
(* Every statement sent to the database is one step of the handler and     *)
(* may fail with mysql.connector.Error.                                    *)
(***************************************************************************)
EXTENDS Integers, Sequences, FiniteSets, TLC

\* ------------------------------------------------------------- bounds
\* Longest CSV file, in data rows.
MaxRows == 2
\* Largest applicant_id a CSV cell holds.
MaxKey == 2
\* Upload clicks per behaviour.
MaxUploads == 2
\* Seconds the database clock advances over a behaviour.
MaxClock == 1
\* The most values a CSV column has where its type is inferred.
MaxColumnLen == 3

\* ------------------------------------------------------------- values
AllSessions == {"s1", "s2"}

RegistryName == "_uploaded_tables"
RegistryColumns == <<"id", "table_name", "uploaded_by", "uploaded_at", "row_count">>
PK == "applicant_id"

\* A CSV cell of the applicant_id column as pandas reads it: empty (NaN),
\* a number, or text that is no number.
NaN == [kind |-> "nan", val |-> 0]
Num(n) == [kind |-> "num", val |-> n]
Txt == [kind |-> "str", val |-> 0]
Cells == {NaN, Txt} \cup {Num(n) : n \in 1..MaxKey}

\* The text a CSV carries in its table_name / uploaded_by cells.
CsvText == "secrets"

\* ------------------------------------------------------------- sequences
Range(s) == {s[i] : i \in 1..Len(s)}

SeqsUpTo(S, n) == UNION {[1..k -> S] : k \in 0..n}

\* [x for x in s if P(x)], order kept
RECURSIVE FilterSeq(_, _)
FilterSeq(s, keep) ==
    IF s = <<>> THEN <<>>
    ELSE IF Head(s) \in keep THEN <<Head(s)>> \o FilterSeq(Tail(s), keep)
    ELSE FilterSeq(Tail(s), keep)

Prefix(s, k) == [i \in 1..k |-> s[i]]

Min(a, b) == IF a < b THEN a ELSE b

\* ------------------------------------------------------------- CSV files
IdAge == <<"applicant_id", "age">>
IncomeAgeId == <<"income", "age", "applicant_id">>
RegistryLike == <<"applicant_id", "table_name", "uploaded_by", "row_count">>
AgeOnly == <<"age">>

\* The parsed CSV (pd.read_csv, headers lower-cased and stripped): its
\* column names in file order and the applicant_id cell of each row.
Files ==
    {[columns |-> c, cells |-> r] :
        c \in {IdAge, IncomeAgeId, RegistryLike}, r \in SeqsUpTo(Cells, MaxRows)}
    \cup {[columns |-> AgeOnly, cells |-> <<>>]}

\* The database also holds a table the application did not create, whose
\* columns are none of any file's.
LegacyColumns == <<"customer", "balance">>
NewTables == {"a", "b", "risk_batch1"}
DataTables == NewTables \cup {"legacy"}
\* What users type as the target table when they may submit any form.
TableNameInputs == {"", RegistryName, "a", "legacy"}
UploaderInputs == {"", " ", "ann"}

\* What a user may submit on the upload page: every file for every target
\* with the uploader's name given, and one file with either field left
\* blank (the handler rejects a blank field before it reads the file).
Forms ==
    {[file |-> f, table_name |-> t, uploader_name |-> "ann"] :
        f \in Files, t \in TableNameInputs \ {""}}
    \cup {[file |-> [columns |-> IdAge, cells |-> <<>>],
           table_name |-> t, uploader_name |-> u] :
            t \in TableNameInputs, u \in UploaderInputs}

NoForm == [file |-> [columns |-> <<>>, cells |-> <<>>], table_name |-> "", uploader_name |-> ""]

\* What two users who upload to the same new table at the same time submit:
\* files of numbered rows, in either column layout, for table a.
ConcurrentForms ==
    {f \in Forms :
        /\ f.table_name = "a"
        /\ f.file.columns \in {IdAge, IncomeAgeId}
        /\ f.file.cells # <<>>
        /\ \A i \in 1..Len(f.file.cells) : f.file.cells[i].kind = "num"
        /\ \A i, j \in 1..Len(f.file.cells) :
                f.file.cells[i] = f.file.cells[j] => i = j}

\* The forms the users of a behaviour submit: any, those of two concurrent
\* users, or one form only.
FormsOf(w) ==
    IF w.kind = "any" THEN Forms
    ELSE IF w.kind = "concurrent" THEN ConcurrentForms
    ELSE {w.form}

\* A workload: which forms are submitted, how many uploads are made, the
\* target tables of a scripted sequence of uploads, and how far the
\* database clock runs.
Workload(kind, form, uploads, targets, clock) ==
    [kind |-> kind, form |-> form, uploads |-> uploads,
     targets |-> targets, clock |-> clock]

AppUser == "analyst"
AppPassword == "pw"
UsernameInputs == {"", AppUser, "mallory"}
PasswordInputs == {"", AppPassword, "guess"}

\* ------------------------------------------------------------- messages
MsgNameRequired == "Your Full Name is required. Please provide your name to upload."
MsgTableRequired == "Target Table Name is required."
MsgNoApplicantId == "CSV must contain an 'applicant_id' column to use as primary key."
MsgNoMatch == "No matching columns found in existing table."
MsgValidateFailed == "Unable to validate table structure. Please try again."
MsgDbError == "Unable to connect to database. Please check your network and try again."
MsgViewError == "Unable to retrieve table data. Please check your network and try again."
MsgGeneric == "An unexpected error occurred. Please try again."
MsgLoginBlank == "Please enter both username and password."
MsgLoginDenied == "Invalid credentials. Access denied."
MsgOperationFailed == "Database operation failed. Please check your data and try again."
\* str(e) of the ValueError astype(int) raises on text that is no number
ValueErrorText == "invalid literal for int() with base 10: 'x'"
\* str(e) of the pandas DatabaseError pd.read_sql raises when the server
\* rejects the SELECT: it quotes the query and the server's error.
PandasSqlErrorText ==
    "Execution failed on sql 'SELECT * FROM `secrets` LIMIT 1000': 1146 (42S02): Table 'credit.secrets' doesn't exist"
\* str(e) of a mysql.connector.Error: it names the server.
ConnectorErrorText == "2003 (HY000): Can't connect to MySQL server on '10.0.0.5:3306' (111)"
\* The exception texts that quote the database: server, schema or query.
StorageErrorTexts == {PandasSqlErrorText, ConnectorErrorText}

\* ------------------------------------------------------------- pandas
\* s.strip() == "" over the strings the forms hold
IsBlank(s) == s \in {"", " "}

\* A faulty dropna that keeps every row.
DropNaKeepsAll(cells) == cells

\* df.dropna(subset=["applicant_id"]): the rows whose key cell is not NaN
DropNa(cells) == SelectSeq(cells, LAMBDA c : c # NaN)

\* A faulty coercion that lets text through as 0.
CanCoerceAnything(cells) == TRUE

\* astype(int) raises ValueError as soon as one cell is no number
CanCoerce(cells) == \A i \in 1..Len(cells) : cells[i].kind = "num"

\* astype(int) of a column every cell of which is a number
AsTypeInt(cells) == [i \in 1..Len(cells) |-> cells[i].val]

\* [col for col in df.columns if col in existing_columns]
ColumnsToKeep(columns, existing_columns) ==
    FilterSeq(columns, Range(existing_columns))

\* A faulty sanitizer that returns the text as it is.
sanitize_nothing(error_str) == error_str

\* sanitize_error_message over the exception texts the handlers can meet:
\* an empty text gives the generic message; a text with SQL, SELECT or
\* INSERT in it (every text that says MySQL or quotes a query) is replaced
\* by the fixed message; the ValueError text holds no host, credential,
\* SQL keyword or path and is returned as it is.
sanitize_error_message(error_str) ==
    CASE error_str = "" -> MsgGeneric
      [] error_str \in {PandasSqlErrorText, ConnectorErrorText} -> MsgOperationFailed
      [] OTHER -> error_str

\* The dtypes a DataFrame column can have, by the pandas predicate that
\* holds of them; object, category and timedelta satisfy none.
IntegerDtypes == {"int64", "Int64"}
FloatDtypes == {"float64"}
BoolDtypes == {"bool"}
DatetimeDtypes == {"datetime64[ns]"}
OtherDtypes == {"object", "category", "timedelta64[ns]"}
Dtypes == IntegerDtypes \cup FloatDtypes \cup BoolDtypes \cup DatetimeDtypes
            \cup OtherDtypes

\* infer_mysql_type: the first of the four dtype tests that holds decides.
infer_mysql_type(dtype) ==
    IF dtype \in IntegerDtypes THEN "INT"
    ELSE IF dtype \in FloatDtypes THEN "DOUBLE"
    ELSE IF dtype \in BoolDtypes THEN "BOOLEAN"
    ELSE IF dtype \in DatetimeDtypes THEN "DATETIME"
    ELSE "TEXT"

\* ensure_table_exists: type_map.get(str(dtype), "VARCHAR(255)")
type_map(dtype) ==
    CASE dtype = "int64" -> "BIGINT"
      [] dtype = "float64" -> "DOUBLE"
      [] dtype = "bool" -> "TINYINT(1)"
      [] dtype = "object" -> "VARCHAR(255)"
      [] dtype = "datetime64[ns]" -> "DATETIME"
      [] OTHER -> "VARCHAR(255)"

\* What a CSV field can hold: an integer ("1"), a decimal ("1.5"), a truth
\* value ("true"), a timestamp ("2024-01-01 10:00:00"), other text ("x"),
\* or nothing.
Fields == {"integer", "decimal", "boolean", "timestamp", "text", "null"}
CsvColumns == SeqsUpTo(Fields, MaxColumnLen)

\* pd.read_csv(uploaded_file), no dtype and no parse_dates given: the dtype
\* the parser gives a column. Numbers with a missing field become float64
\* and so does a column of missing fields only; truth values with a missing
\* field, timestamps and anything mixed stay object.
read_csv_dtype(values) ==
    LET present == Range(values) \ {"null"}
    IN  IF values = <<>> THEN "object"
        ELSE IF present = {} THEN "float64"
        ELSE IF present = {"integer"}
             THEN IF "null" \in Range(values) THEN "float64" ELSE "int64"
        ELSE IF present \subseteq {"integer", "decimal"} THEN "float64"
        ELSE IF present = {"boolean"} /\ "null" \notin Range(values) THEN "bool"
        ELSE "object"

\* The dtype of each column of the uploaded files, as the handler passes
\* it on: applicant_id after astype(int), the others as read_csv typed them.
ColumnDtype(col) ==
    CASE col \in {"applicant_id", "age", "row_count"} -> "int64"
      [] col = "income" -> "float64"
      [] OTHER -> "object"

\* ------------------------------------------------------------- MySQL
NoTable == [exists |-> FALSE, columns |-> <<>>, rows |-> {},
            types |-> <<>>, primary_key |-> ""]

\* A stored row of a target table: its primary key and the columns the
\* INSERT statement that wrote it named.
Row(id, columns) == [applicant_id |-> id, written |-> columns]

Keys(rows) == {r.applicant_id : r \in rows}

\* INSERT IGNORE ... VALUES row by row: a row whose applicant_id is already
\* in the table, or was inserted earlier by the same statement, is skipped.
RECURSIVE InsertIgnore(_, _, _)
InsertIgnore(rows, ids, columns) ==
    IF ids = <<>> THEN rows
    ELSE IF Head(ids) \in Keys(rows)
         THEN InsertIgnore(rows, Tail(ids), columns)
         ELSE InsertIgnore(rows \cup {Row(Head(ids), columns)}, Tail(ids), columns)

\* The registry rows an INSERT IGNORE into `_uploaded_tables` adds, one per
\* data row: columns the statement does not name take their default (the
\* implicit '' / 0 of a NOT NULL column, CURRENT_TIMESTAMP for uploaded_at).
CsvEntries(ids, columns, at) ==
    [i \in 1..Len(ids) |->
        [table_name |-> IF "table_name" \in Range(columns) THEN CsvText ELSE "",
         uploaded_by |-> IF "uploaded_by" \in Range(columns) THEN CsvText ELSE "",
         uploaded_at |-> at,
         row_count |-> 0]]

\* The row register_table inserts.
Entry(table_name, uploader, at, row_count) ==
    [table_name |-> table_name, uploaded_by |-> uploader,
     uploaded_at |-> at, row_count |-> row_count]

\* ------------------------------------------------------------- state
VARIABLES
    sessions,        \* the browser sessions of this behaviour
    workload,        \* the forms its users submit, and how many uploads
    tables,          \* target tables of the database, by name
    registry,        \* rows of `_uploaded_tables`, in insertion (id) order
    registryExists,  \* whether `_uploaded_tables` has been created
    now,             \* CURRENT_TIMESTAMP, in seconds
    authenticated,   \* st.session_state.authenticated, per session
    username,        \* st.session_state.username, per session
    pc,              \* where each session's script run stands
    req,             \* the locals of the upload handler, per session
    conn,            \* the connection the run opened: none, open, closed
    txn,             \* what the connection has written and not committed
    screen,          \* what the page shows the user
    nUploads,        \* upload clicks so far
    reports,         \* the success messages shown so far: table and row count
    inference        \* a CSV column on its way from text to a column type

vars == <<sessions, workload, tables, registry, registryExists, now,
          authenticated, username, pc, req, conn, txn, screen,
          nUploads, reports, inference>>

dbVars == <<tables, registry, registryExists, now>>
authVars == <<authenticated, username>>
fixedVars == <<sessions, workload, inference>>

NoneUser == "None"

NoFile == [columns |-> <<>>, cells |-> <<>>]

\* The handler's locals (table_name .. kept) and, for the record, what the
\* run did: the file it was given, the INSERT statement it sent, how many
\* rows had gone when the statement failed, how many rows the commit added,
\* and the target table and registry as they were when the run began.
NoReq ==
    [table_name |-> "", uploader_name |-> "", columns |-> <<>>, ids |-> <<>>,
     file |-> NoFile, submitted |-> 0, dropped |-> 0, sent |-> 0,
     table_exists |-> FALSE, described |-> FALSE,
     kept |-> <<>>, statement |-> <<>>, added |-> 0,
     created |-> FALSE, committed |-> FALSE,
     rows0 |-> {}, columns0 |-> <<>>, registry0 |-> <<>>]

NoTxn == [rows |-> {}, entries |-> <<>>, done |-> 0]

Blank(kind) ==
    [kind |-> kind, msg |-> "", rows |-> 0, warning |-> 0, failed_at |-> "",
     listing |-> <<>>, choices |-> {}, preview |-> {}, logged |-> {}]

Error(msg) == [Blank("error") EXCEPT !.msg = msg]

\* The table named t as the database holds it; the registry is a table too.
TableExists(t) ==
    IF t = RegistryName THEN registryExists
    ELSE t \in DataTables /\ tables[t].exists

TableColumns(t) ==
    IF t = RegistryName THEN RegistryColumns
    ELSE IF t \in DataTables THEN tables[t].columns
    ELSE <<>>

TableRows(t) == IF t \in DataTables THEN tables[t].rows ELSE {}

NoInference == [values |-> <<>>, stage |-> "none", dtype |-> "",
                mysql_type |-> "", extras_type |-> ""]

InitDatabase(ss, w) ==
    /\ sessions = ss
    /\ workload = w
    /\ tables = [t \in DataTables |->
                    IF t \in NewTables THEN NoTable
                    ELSE [exists |-> TRUE, columns |-> LegacyColumns, rows |-> {},
                          types |-> <<"TEXT", "DOUBLE">>, primary_key |-> "customer"]]
    /\ registry = <<>>
    /\ registryExists = FALSE
    /\ now = 0
    /\ authenticated = [s \in AllSessions |-> FALSE]
    /\ username = [s \in AllSessions |-> NoneUser]
    /\ pc = [s \in AllSessions |-> "login"]
    /\ req = [s \in AllSessions |-> NoReq]
    /\ conn = [s \in AllSessions |-> "none"]
    /\ txn = [s \in AllSessions |-> NoTxn]
    /\ screen = [s \in AllSessions |-> Blank("login")]
    /\ nUploads = 0
    /\ reports = <<>>

InitSessions(ss, w) == InitDatabase(ss, w) /\ inference = NoInference

InitWith(w) == InitSessions({"s1"}, w)

\* A fresh database, one browser session at the login form, and users who
\* may submit any form.
Init == InitWith(Workload("any", NoForm, MaxUploads, <<>>, MaxClock))

\* The forms that may be submitted next: in a scripted sequence, the one
\* form with the next target.
FormsNow ==
    IF workload.kind = "seq"
    THEN IF nUploads < Len(workload.targets)
         THEN {[workload.form EXCEPT !.table_name = workload.targets[nUploads + 1]]}
         ELSE {}
    ELSE FormsOf(workload)

\* ------------------------------------------------------------- login
\* A faulty check that lets everyone in.
authenticate_anyone(u, p) == TRUE

\* authenticate: both fields equal the configured credentials.
authenticate(u, p) == u = AppUser /\ p = AppPassword

\* show_login: the form is submitted with username u and password p.
LoginSubmit(s, u, p) ==
    /\ pc[s] = "login"
    /\ IF u = "" \/ p = ""
       THEN /\ screen' = [screen EXCEPT ![s] = [Blank("login") EXCEPT !.msg = MsgLoginBlank]]
            /\ UNCHANGED <<authVars, pc>>
       ELSE IF authenticate(u, p)
       THEN /\ authenticated' = [authenticated EXCEPT ![s] = TRUE]
            /\ username' = [username EXCEPT ![s] = u]
            /\ pc' = [pc EXCEPT ![s] = "form"]
            /\ screen' = [screen EXCEPT ![s] = Blank("form")]
       ELSE /\ screen' = [screen EXCEPT ![s] = [Blank("login") EXCEPT !.msg = MsgLoginDenied]]
            /\ UNCHANGED <<authVars, pc>>
    /\ UNCHANGED <<fixedVars, dbVars, req, conn, txn, nUploads, reports>>

\* The Sign Out button of the sidebar: logout() and a rerun, which the
\* router sends to the login form. The connection object of the last run
\* is gone with that run's locals.
SignOut(s) ==
    /\ pc[s] \in {"form", "shown"}
    /\ authenticated[s]
    /\ authenticated' = [authenticated EXCEPT ![s] = FALSE]
    /\ username' = [username EXCEPT ![s] = NoneUser]
    /\ pc' = [pc EXCEPT ![s] = "login"]
    /\ screen' = [screen EXCEPT ![s] = Blank("login")]
    /\ req' = [req EXCEPT ![s] = NoReq]
    /\ conn' = [conn EXCEPT ![s] = "none"]
    /\ UNCHANGED <<fixedVars, dbVars, txn, nUploads, reports>>

\* Any other widget interaction reruns the script with no button pressed:
\* the page shows the empty form again.
Rerun(s) ==
    /\ pc[s] = "shown"
    /\ authenticated[s]
    /\ pc' = [pc EXCEPT ![s] = "form"]
    /\ screen' = [screen EXCEPT ![s] = Blank("form")]
    /\ req' = [req EXCEPT ![s] = NoReq]
    /\ conn' = [conn EXCEPT ![s] = "none"]
    /\ UNCHANGED <<fixedVars, dbVars, authVars, txn, nUploads, reports>>

\* ------------------------------------------------------------- upload
\* The run ends and the page shows scr (below the warning already shown).
Show(s, scr) ==
    /\ pc' = [pc EXCEPT ![s] = "shown"]
    /\ screen' = [screen EXCEPT ![s] = [scr EXCEPT !.warning = screen[s].warning]]

\* A faulty handler that swallows the exception and reports success.
RaiseSwallowed(s, step) == Show(s, Blank("success"))

\* An exception leaves the handler through `except mysql.connector.Error`:
\* the fixed message is shown; conn.close() is not reached.
Raise(s, step) == Show(s, [Error(MsgDbError) EXCEPT !.failed_at = step])

\* A faulty storage engine that keeps the rows already sent.
AfterAbortKeepsStaged(committed, staged) == staged

\* What the database holds of a table once the connection that wrote
\* `staged` (the table as its transaction saw it) goes away before
\* conn.commit(): the uncommitted rows are rolled back.
AfterAbort(committed, staged) == committed

\* The Upload to MySQL button: validation of the form, the null-key drop,
\* the integer coercion, and get_connection().
UploadClick(s, form) ==
    /\ pc[s] = "form"
    /\ authenticated[s]
    /\ nUploads < workload.uploads
    /\ nUploads' = nUploads + 1
    /\ LET t == form.table_name
           before == Len(form.file.cells)
           cells == DropNa(form.file.cells)
           dropped == before - Len(cells)
           warned == [Blank("form") EXCEPT !.warning = dropped]
           given == [NoReq EXCEPT
                        !.file = form.file,
                        !.table_name = t,
                        !.uploader_name = form.uploader_name,
                        !.submitted = before,
                        !.rows0 = TableRows(t),
                        !.columns0 = IF TableExists(t) THEN TableColumns(t) ELSE <<>>,
                        !.registry0 = registry]
       IN  IF form.uploader_name = "" \/ IsBlank(form.uploader_name)
           THEN /\ Show(s, Error(MsgNameRequired))
                /\ req' = [req EXCEPT ![s] = given]
                /\ UNCHANGED conn
           ELSE IF t = "" \/ IsBlank(t)
           THEN /\ Show(s, Error(MsgTableRequired))
                /\ req' = [req EXCEPT ![s] = given]
                /\ UNCHANGED conn
           ELSE IF PK \notin Range(form.file.columns)
           THEN /\ Show(s, Error(MsgNoApplicantId))
                /\ req' = [req EXCEPT ![s] = given]
                /\ UNCHANGED conn
           ELSE IF ~CanCoerce(cells)
           THEN /\ Show(s, [Error(sanitize_error_message(ValueErrorText))
                                EXCEPT !.failed_at = "astype"])
                /\ req' = [req EXCEPT ![s] = given]
                /\ UNCHANGED conn
           ELSE /\ req' = [req EXCEPT ![s] =
                        [given EXCEPT !.columns = form.file.columns,
                                      !.ids = AsTypeInt(cells),
                                      !.dropped = dropped]]
                /\ \E connected \in BOOLEAN :
                    IF connected
                    THEN /\ conn' = [conn EXCEPT ![s] = "open"]
                         /\ pc' = [pc EXCEPT ![s] = "ensure_registry"]
                         /\ screen' = [screen EXCEPT ![s] = warned]
                    ELSE /\ conn' = conn
                         /\ pc' = [pc EXCEPT ![s] = "shown"]
                         /\ screen' = [screen EXCEPT ![s] =
                                [Error(MsgDbError) EXCEPT !.warning = dropped,
                                                          !.failed_at = "connect"]]
    /\ UNCHANGED <<fixedVars, dbVars, authVars, txn, reports>>

\* ensure_registry(conn): CREATE TABLE IF NOT EXISTS `_uploaded_tables`.
EnsureRegistry(s) ==
    /\ pc[s] = "ensure_registry"
    /\ \E ok \in BOOLEAN :
        IF ok
        THEN /\ registryExists' = TRUE
             /\ pc' = [pc EXCEPT ![s] = "check"]
             /\ UNCHANGED screen
        ELSE /\ Raise(s, "ensure_registry")
             /\ UNCHANGED registryExists
    /\ UNCHANGED <<fixedVars, tables, registry, now, authVars, req, conn, txn,
                   nUploads, reports>>

\* validate_and_append_data, to the existence check: conn.cursor() stands
\* outside the try and raises to the handler; a failing query returns the
\* fixed message, which the handler shows without closing the connection.
CheckExists(s) ==
    /\ pc[s] = "check"
    /\ \E result \in {"ok", "cursor", "query"} :
        CASE result = "cursor" ->
                /\ Raise(s, "cursor")
                /\ UNCHANGED req
          [] result = "query" ->
                /\ Show(s, [Error(MsgValidateFailed) EXCEPT !.failed_at = "check"])
                /\ UNCHANGED req
          [] OTHER ->
                /\ req' = [req EXCEPT ![s].table_exists = TableExists(req[s].table_name),
                                      ![s].kept = req[s].columns]
                /\ pc' = [pc EXCEPT ![s] =
                            IF TableExists(req[s].table_name) THEN "describe" ELSE "create"]
                /\ UNCHANGED screen
    /\ UNCHANGED <<fixedVars, dbVars, authVars, conn, txn, nUploads, reports>>

\* get_table_columns and the column filter. A failing DESCRIBE returns
\* None; `if existing_columns:` is then false and df goes on unfiltered.
Describe(s) ==
    /\ pc[s] = "describe"
    /\ \E ok \in BOOLEAN :
        IF ok
        THEN LET columns_to_keep ==
                     ColumnsToKeep(req[s].columns, TableColumns(req[s].table_name))
             IN  IF columns_to_keep = <<>>
                 THEN /\ Show(s, [Error(MsgNoMatch) EXCEPT !.failed_at = "columns"])
                      /\ req' = [req EXCEPT ![s].described = TRUE, ![s].kept = <<>>]
                 ELSE /\ req' = [req EXCEPT ![s].described = TRUE,
                                            ![s].kept = columns_to_keep]
                      /\ pc' = [pc EXCEPT ![s] = "create"]
                      /\ UNCHANGED screen
        ELSE /\ pc' = [pc EXCEPT ![s] = "create"]
             /\ UNCHANGED <<req, screen>>
    /\ UNCHANGED <<fixedVars, dbVars, authVars, conn, txn, nUploads, reports>>

\* A faulty table definition that keeps the key column only.
NewTableKeyOnly(columns) ==
    [exists |-> TRUE, columns |-> <<PK>>, rows |-> {},
     types |-> <<"INT">>, primary_key |-> PK]

\* The table create_table_from_df defines: the columns of df_filtered, in
\* order, each with the MySQL type of its dtype; applicant_id is its
\* primary key.
NewTable(columns) ==
    [exists |-> TRUE, columns |-> columns, rows |-> {},
     types |-> [i \in 1..Len(columns) |-> infer_mysql_type(ColumnDtype(columns[i]))],
     primary_key |-> IF PK \in Range(columns) THEN PK ELSE ""]

\* create_table_from_df: CREATE TABLE IF NOT EXISTS, a no-op on a table
\* that exists.
CreateTable(s) ==
    /\ pc[s] = "create"
    /\ \E ok \in BOOLEAN :
        IF ok
        THEN LET t == req[s].table_name
             IN  /\ IF TableExists(t)
                    THEN UNCHANGED <<tables, req>>
                    ELSE /\ tables' = [tables EXCEPT ![t] = NewTable(req[s].kept)]
                         /\ req' = [req EXCEPT ![s].created = TRUE]
                 /\ pc' = [pc EXCEPT ![s] = "insert"]
                 /\ UNCHANGED screen
        ELSE /\ Raise(s, "create")
             /\ UNCHANGED <<tables, req>>
    /\ UNCHANGED <<fixedVars, registry, registryExists, now, authVars, conn, txn,
                   nUploads, reports>>

\* InnoDB row locks: the keys a session's uncommitted INSERT has added to
\* table t are locked until it commits or rolls back.
LockedByOthers(s, t) ==
    UNION {Keys(txn[o].rows) : o \in {x \in sessions \ {s} : req[x].table_name = t}}

\* The position of the first row after `from` whose key is locked by another
\* session's transaction; Len(data) + 1 if there is none.
FirstLocked(data, from, locked) ==
    LET at == {i \in (from + 1)..Len(data) : data[i] \in locked}
    IN  IF at = {} THEN Len(data) + 1 ELSE CHOOSE i \in at : \A j \in at : i <= j

\* Session o's INSERT waits for a row lock that session s holds.
WaitsFor(o, s) ==
    /\ pc[o] = "insert"
    /\ req[o].table_name = req[s].table_name
    /\ txn[o].done < Len(req[o].ids)
    /\ req[o].ids[txn[o].done + 1] \in Keys(txn[s].rows)

\* insert_dataframe, cursor.executemany: one INSERT IGNORE naming the
\* columns of df_filtered, over its rows. With no rows executemany returns
\* at once; a column the table lacks is MySQL error 1054; the connection
\* may fail after the first k rows. The statement takes its rows in order,
\* interleaved with the rows of a statement another session runs on the
\* table, and waits at a row whose key another transaction has inserted and
\* not committed; when that transaction waits for this one too, InnoDB ends one
\* of the two with error 1213 (deadlock) and rolls it back.
InsertRows(s) ==
    /\ pc[s] = "insert"
    /\ LET t == req[s].table_name
           data == req[s].ids
           statement == req[s].kept
           from == txn[s].done
           limit == FirstLocked(data, from, LockedByOthers(s, t)) - 1
       IN  IF data = <<>>
           THEN /\ pc' = [pc EXCEPT ![s] = "commit"]
                /\ UNCHANGED <<tables, registry, req, txn, screen>>
           ELSE IF ~(Range(statement) \subseteq Range(TableColumns(t)))
           THEN /\ Raise(s, "unknown_column")
                /\ req' = [req EXCEPT ![s].statement = statement]
                /\ UNCHANGED <<tables, registry, txn>>
           ELSE \E k \in from..limit :
                LET rows == IF t = RegistryName
                            THEN {}
                            ELSE InsertIgnore(TableRows(t) \cup txn[s].rows,
                                              SubSeq(data, from + 1, k), statement)
                    entries == IF t = RegistryName
                               THEN CsvEntries(Prefix(data, k), statement, now)
                               ELSE <<>>
                    staged == [rows |-> rows \ TableRows(t), entries |-> entries,
                               done |-> k]
                IN  /\ req' = [req EXCEPT ![s].statement = statement, ![s].sent = k]
                    /\ \/ /\ k = Len(data)
                          /\ txn' = [txn EXCEPT ![s] = staged]
                          /\ pc' = [pc EXCEPT ![s] = "commit"]
                          /\ UNCHANGED <<tables, registry, screen>>
                       \/ /\ k < Len(data)
                          /\ Raise(s, "insert")
                          /\ tables' = [u \in DataTables |->
                                  IF u = t
                                  THEN [tables[u] EXCEPT !.rows = AfterAbort(@, rows)]
                                  ELSE tables[u]]
                          /\ registry' = AfterAbort(registry, registry \o entries)
                          /\ txn' = [txn EXCEPT ![s] = NoTxn]
                       \/ /\ k < Len(data) /\ k > from
                          /\ \/ k = limit
                             \/ \E o \in sessions \ {s} :
                                    pc[o] = "insert" /\ req[o].table_name = t
                          /\ txn' = [txn EXCEPT ![s] = staged]
                          /\ UNCHANGED <<tables, registry, pc, screen>>
                       \/ /\ k = limit /\ k < Len(data)
                          /\ \E o \in sessions \ {s} :
                                /\ data[k + 1] \in Keys(txn[o].rows)
                                /\ WaitsFor(o, s)
                          /\ Raise(s, "deadlock")
                          /\ txn' = [txn EXCEPT ![s] = NoTxn]
                          /\ UNCHANGED <<tables, registry>>
    /\ UNCHANGED <<fixedVars, registryExists, now, authVars, conn, nUploads, reports>>

\* insert_dataframe, conn.commit(): the staged rows become the table's.
CommitInsert(s) ==
    /\ pc[s] = "commit"
    /\ LET t == req[s].table_name
       IN  \E ok \in BOOLEAN :
           IF ok
           THEN /\ tables' = [u \in DataTables |->
                        IF u = t
                        THEN [tables[u] EXCEPT !.rows = @ \cup txn[s].rows]
                        ELSE tables[u]]
                /\ registry' = registry \o txn[s].entries
                /\ req' = [req EXCEPT
                        ![s].added = Cardinality(txn[s].rows) + Len(txn[s].entries),
                        ![s].committed = TRUE]
                /\ pc' = [pc EXCEPT ![s] = "register"]
                /\ UNCHANGED screen
           ELSE /\ Raise(s, "commit")
                /\ tables' = [u \in DataTables |->
                        IF u = t
                        THEN [tables[u] EXCEPT
                                !.rows = AfterAbort(@, @ \cup txn[s].rows)]
                        ELSE tables[u]]
                /\ registry' = AfterAbort(registry, registry \o txn[s].entries)
                /\ UNCHANGED req
    /\ txn' = [txn EXCEPT ![s] = NoTxn]
    /\ UNCHANGED <<fixedVars, registryExists, now, authVars, conn, nUploads, reports>>

\* A faulty registration that overwrites the table's earlier entry.
AppendEntryReplacing(entries, e) ==
    IF \E i \in DOMAIN entries : entries[i].table_name = e.table_name
    THEN [i \in DOMAIN entries |->
            IF entries[i].table_name = e.table_name THEN e ELSE entries[i]]
    ELSE Append(entries, e)

\* INSERT INTO `_uploaded_tables`: the new row goes after the others.
AppendEntry(entries, e) == Append(entries, e)

\* A faulty count that includes the rows dropped for a null key.
RowsSubmitted(r) == r.submitted

\* The row count the handler reports and registers: len(df_filtered).
RowsReported(r) == Len(r.ids)

\* register_table, conn.close() and the success message. The database
\* stamps uploaded_at with its clock, which may have moved on.
RegisterUpload(s) ==
    /\ pc[s] = "register"
    /\ \E ok \in BOOLEAN :
        IF ok
        THEN \E at \in now..Min(now + 1, workload.clock) :
             /\ registry' = AppendEntry(registry,
                    Entry(req[s].table_name, req[s].uploader_name, at,
                          RowsReported(req[s])))
             /\ now' = at
             /\ conn' = [conn EXCEPT ![s] = "closed"]
             /\ Show(s, [Blank("success") EXCEPT !.rows = RowsReported(req[s])])
             /\ reports' = Append(reports,
                    [table_name |-> req[s].table_name, rows |-> RowsReported(req[s])])
        ELSE /\ Raise(s, "register")
             /\ UNCHANGED <<registry, now, conn, reports>>
    /\ UNCHANGED <<fixedVars, tables, registryExists, authVars, req, txn, nUploads>>

\* ------------------------------------------------------------- view
\* SELECT ... ORDER BY uploaded_at DESC: every order of the rows that is
\* descending in uploaded_at (MySQL leaves the order of ties open).
RECURSIVE Listings(_, _)
Listings(entries, left) ==
    IF left = {} THEN {<<>>}
    ELSE UNION {{<<entries[i]>> \o rest : rest \in Listings(entries, left \ {i})} :
                i \in {j \in left :
                        \A k \in left : entries[j].uploaded_at >= entries[k].uploaded_at}}

\* A faulty accessor that answers from a cache when the query fails.
get_registry_data_cached(ok) == Listings(registry, DOMAIN registry)

\* get_registry_data: the listing, or [] when the query fails.
get_registry_data(ok) ==
    IF ok THEN Listings(registry, DOMAIN registry) ELSE {<<>>}

\* get_registered_tables: the distinct table_name values, or [] when the
\* query fails.
get_registered_tables(ok) ==
    IF ok THEN {registry[i].table_name : i \in DOMAIN registry} ELSE {}

\* The View Uploaded Data page: get_connection, ensure_registry, the
\* registry listing and the names offered for preview. An accessor whose
\* query fails logs the error and returns [].
ViewRegistry(s) ==
    /\ pc[s] = "form"
    /\ authenticated[s]
    /\ \E reached \in {"connect", "ensure", "read"} :
        IF reached = "read"
        THEN /\ registryExists' = TRUE
             /\ \E dataOk \in BOOLEAN, tablesOk \in BOOLEAN :
                \E listing \in get_registry_data(dataOk) :
                    /\ screen' = [screen EXCEPT ![s] =
                            [Blank("view") EXCEPT
                                !.listing = listing,
                                !.choices = get_registered_tables(tablesOk),
                                !.logged =
                                    {f \in {"get_registry_data"} : ~dataOk}
                                    \cup {f \in {"get_registered_tables"} : ~tablesOk}]]
                    /\ conn' = [conn EXCEPT ![s] = "closed"]
        ELSE /\ screen' = [screen EXCEPT ![s] = Error(MsgViewError)]
             /\ conn' = [conn EXCEPT ![s] = IF reached = "ensure" THEN "open" ELSE "none"]
             /\ UNCHANGED registryExists
    /\ pc' = [pc EXCEPT ![s] = "shown"]
    /\ UNCHANGED <<fixedVars, tables, registry, now, authVars, req, txn,
                   nUploads, reports>>

\* The Load Table button on a table the select box offers: the newest
\* registry row of that name, then SELECT * FROM it. pandas raises on a
\* table that does not exist; the sanitizer replaces its text.
LoadTable(s, selected_table) ==
    /\ pc[s] = "shown"
    /\ authenticated[s]
    /\ screen[s].kind = "view"
    /\ selected_table \in screen[s].choices
    /\ \E ok \in BOOLEAN :
        IF ~ok
        THEN /\ screen' = [screen EXCEPT ![s] =
                    [Error(MsgViewError) EXCEPT !.listing = screen[s].listing,
                                                !.choices = screen[s].choices]]
             /\ conn' = [conn EXCEPT ![s] = "open"]
        ELSE IF selected_table \in DataTables /\ tables[selected_table].exists
        THEN /\ screen' = [screen EXCEPT ![s] =
                    [Blank("preview") EXCEPT
                        !.msg = selected_table,
                        !.listing = screen[s].listing,
                        !.choices = screen[s].choices,
                        !.preview = tables[selected_table].rows]]
             /\ conn' = [conn EXCEPT ![s] = "closed"]
        ELSE IF selected_table = RegistryName
        THEN /\ screen' = [screen EXCEPT ![s] =
                    [Blank("preview") EXCEPT
                        !.msg = selected_table,
                        !.listing = screen[s].listing,
                        !.choices = screen[s].choices,
                        !.preview = Range(registry)]]
             /\ conn' = [conn EXCEPT ![s] = "closed"]
        ELSE /\ screen' = [screen EXCEPT ![s] =
                    [Error(sanitize_error_message(PandasSqlErrorText))
                        EXCEPT !.listing = screen[s].listing,
                               !.choices = screen[s].choices,
                               !.failed_at = "read_sql"]]
             /\ conn' = [conn EXCEPT ![s] = "open"]
    /\ UNCHANGED <<fixedVars, dbVars, authVars, pc, req, txn, nUploads, reports>>

\* ------------------------------------------------------------- system
Next ==
    \/ \E s \in sessions, u \in UsernameInputs, p \in PasswordInputs :
            LoginSubmit(s, u, p)
    \/ \E s \in sessions : SignOut(s)
    \/ \E s \in sessions : Rerun(s)
    \/ \E s \in sessions, form \in FormsNow : UploadClick(s, form)
    \/ \E s \in sessions : EnsureRegistry(s)
    \/ \E s \in sessions : CheckExists(s)
    \/ \E s \in sessions : Describe(s)
    \/ \E s \in sessions : CreateTable(s)
    \/ \E s \in sessions : InsertRows(s)
    \/ \E s \in sessions : CommitInsert(s)
    \/ \E s \in sessions : RegisterUpload(s)
    \/ \E s \in sessions : ViewRegistry(s)
    \/ \E s \in sessions, t \in TableNameInputs \cup DataTables \cup {CsvText} :
            LoadTable(s, t)

Spec == Init /\ [][Next]_vars

\* ------------------------------------------------------------- re-upload
\* A CSV whose applicant_id values are distinct and none is missing.
DistinctKeys(cells) ==
    /\ \A i \in 1..Len(cells) : cells[i].kind = "num"
    /\ \A i, j \in 1..Len(cells) : cells[i] = cells[j] => i = j

ReingestForms ==
    {f \in Forms : f.table_name = "a" /\ DistinctKeys(f.file.cells)}

\* The same file is uploaded to the same new table, twice.
InitReingest ==
    \E f \in ReingestForms : InitWith(Workload("only", f, 2, <<>>, MaxClock))

SpecReingest == InitReingest /\ [][Next]_vars

\* ------------------------------------------------------------- claims
\* The registry rows register_table wrote for table t, oldest first.
EntriesOf(t) == SelectSeq(registry, LAMBDA e : e.table_name = t)

\* The sessions whose upload run has ended and shows its result.
Ended(s) == s \in sessions /\ pc[s] = "shown" /\ req[s].file # NoFile

\* C1: the same file of N distinct, non-null applicant_id values is
\* uploaded twice to the same new table: the first upload reports N rows,
\* the second reports 0, the table holds N rows, and the registry holds two
\* entries for the table, with row_count N and 0.
C1_SecondUploadReportsZero ==
    \A f \in FormsOf(workload) :
        (workload.kind = "only" /\ Len(reports) = 2) =>
            LET N == Len(f.file.cells)
                entries == EntriesOf(f.table_name)
            IN  /\ reports[1].rows = N
                /\ reports[2].rows = 0
                /\ Cardinality(tables[f.table_name].rows) = N
                /\ Len(entries) = 2
                /\ entries[1].row_count = N
                /\ entries[2].row_count = 0

\* The rows of a batch that INSERT IGNORE keeps: the first row of each
\* applicant_id the table does not hold yet.
Fresh(ids, rows0) ==
    {i \in 1..Len(ids) :
        /\ ids[i] \notin Keys(rows0)
        /\ \A j \in 1..(i - 1) : ids[j] # ids[i]}

\* C2: on every successful upload the reported row count, which is also
\* the registered row_count, is the number of rows the insert added to the
\* table: the rows submitted less those dropped for a null key and those
\* skipped for a key already in the table or earlier in the batch.
C2_ReportedRowsAreInsertedRows ==
    \A s \in sessions :
        (Ended(s) /\ screen[s].kind = "success"
                  /\ req[s].table_name \in DataTables) =>
            /\ req[s].added = Cardinality(Fresh(req[s].ids, req[s].rows0))
            /\ screen[s].rows = req[s].added
            /\ registry[Len(registry)].row_count = req[s].added

\* The null applicant_id cells of a file, and its other cells in order.
NullCells(cells) == {i \in 1..Len(cells) : cells[i].kind = "nan"}
OtherCells(cells) == SelectSeq(cells, LAMBDA c : c.kind # "nan")

\* A form that passes validation: both fields given, the applicant_id
\* column present, every applicant_id that is not null a number.
Ingestible(r) ==
    /\ r.uploader_name \notin {"", " "}
    /\ r.table_name \notin {"", " "}
    /\ PK \in Range(r.file.columns)
    /\ \A i \in 1..Len(r.file.cells) : r.file.cells[i].kind \in {"nan", "num"}

\* C3: a file with k null applicant_id cells has exactly those k rows
\* dropped and every other row kept, in order; k is what the warning
\* reports (no warning for k = 0); and the run goes on to the database,
\* whatever k is: it shows no error before a statement has failed.
C3_NullKeysDropped ==
    \A s \in sessions :
        (pc[s] \notin {"login", "form"} /\ Ingestible(req[s])) =>
            LET k == Cardinality(NullCells(req[s].file.cells))
                others == OtherCells(req[s].file.cells)
            IN  /\ req[s].dropped = k
                /\ screen[s].warning = k
                /\ Len(req[s].ids) = Len(others)
                /\ \A i \in 1..Len(others) : req[s].ids[i] = others[i].val
                /\ screen[s].kind = "error" => screen[s].failed_at \notin {"", "astype"}

\* C3 witness: every row of the file had a null key, all were dropped, and
\* the upload went through.
C3_Witness ==
    \E s \in sessions :
        /\ Ended(s)
        /\ screen[s].kind = "success"
        /\ req[s].dropped = Len(req[s].file.cells)
        /\ req[s].dropped >= 2

\* The columns of the upload that the target table has, in file order.
Matching(r) ==
    SelectSeq(r.columns, LAMBDA c : \E i \in DOMAIN TableColumns(r.table_name) :
                                        TableColumns(r.table_name)[i] = c)

\* The steps at which a run ends because the database could not be reached.
ConnectionFailures == {"connect", "cursor", "create", "insert", "commit", "register"}

\* C4: the target table exists and has none of the file's columns: unless
\* the connection fails first, the upload ends with the "no matching
\* columns" error; and nothing was written: no INSERT was sent, the
\* table's rows and columns and the registry are as they were.
C4_NoMatchingColumnsNoWrite ==
    \A s \in sessions :
        (Ended(s) /\ req[s].table_exists /\ req[s].table_name \in DataTables
                  /\ Matching(req[s]) = <<>>) =>
            /\ screen[s].kind = "error"
            /\ \/ screen[s].msg = MsgNoMatch
               \/ screen[s].failed_at \in ConnectionFailures
            /\ req[s].statement = <<>>
            /\ ~req[s].committed
            /\ TableRows(req[s].table_name) = req[s].rows0
            /\ TableColumns(req[s].table_name) = req[s].columns0
            /\ registry = req[s].registry0

\* C5: on an existing table the columns the upload writes are the file's
\* columns that the table has, in file order; the file's other columns are
\* left out and the upload does not fail for them.
C5_WritesMatchingColumns ==
    \A s \in sessions :
        (pc[s] \notin {"login", "form"} /\ req[s].table_exists
                /\ Matching(req[s]) # <<>>) =>
            /\ req[s].statement # <<>> => req[s].statement = Matching(req[s])
            /\ req[s].committed =>
                    \A r \in TableRows(req[s].table_name) \ req[s].rows0 :
                        r.written = Matching(req[s])
            /\ screen[s].failed_at \notin {"columns", "unknown_column"}

\* C6: a table's columns never change once it exists, and every INSERT
\* statement sent for an upload names only columns the target table has.
C6_SchemaNeverWidened ==
    [][/\ \A t \in DataTables :
            tables[t].exists =>
                /\ tables'[t].exists
                /\ tables'[t].columns = tables[t].columns
       /\ \A s \in sessions :
            \A i \in DOMAIN req'[s].statement :
                \E j \in DOMAIN TableColumns(req'[s].table_name) :
                    TableColumns(req'[s].table_name)[j] = req'[s].statement[i]
      ]_vars

\* C7: the registry holds one entry per upload reported successful, in the
\* order of the reports and with the reported table and row count, and no
\* other entry.
C7_OneEntryPerSuccess ==
    /\ Len(registry) = Len(reports)
    /\ \A i \in DOMAIN reports :
            /\ registry[i].table_name = reports[i].table_name
            /\ registry[i].row_count = reports[i].rows

\* C8: no step removes or alters a registry entry; the registry only grows
\* at its end.
C8_RegistryAppendOnly ==
    [][/\ Len(registry') >= Len(registry)
       /\ \A i \in DOMAIN registry : registry'[i] = registry[i]]_vars

\* C8 witness: the registry holds two entries for one table and a preview
\* of a table is on screen.
C8_Witness ==
    \E s \in sessions :
        /\ Len(registry) >= 2
        /\ registry[1].table_name = registry[2].table_name
        /\ screen[s].kind = "preview"

C10_InsertAllOrNothing ==
    \A s \in sessions :
        (Ended(s) /\ req[s].table_name \in DataTables) =>
            /\ screen[s].failed_at \in {"insert", "unknown_column", "commit"} =>
                    TableRows(req[s].table_name) = req[s].rows0
            /\ req[s].committed =>
                    TableRows(req[s].table_name) =
                        req[s].rows0 \cup
                        {Row(req[s].ids[i], req[s].statement) :
                            i \in Fresh(req[s].ids, req[s].rows0)}

\* C10 witness: the connection failed during the bulk INSERT after a row
\* with a new key had been sent.
C10_Witness ==
    \E s \in sessions :
        /\ Ended(s)
        /\ screen[s].failed_at = "insert"
        /\ req[s].sent >= 1
        /\ req[s].ids[1] \notin Keys(req[s].rows0)
        /\ Len(req[s].ids) >= 2

\* C11: an upload of a file that has no applicant_id column, or whose
\* non-null applicant_id cells are not all numbers, ends with an error and
\* has done nothing: no connection was opened, no table created, no INSERT
\* sent, and the target table and the registry are as they were. With both
\* form fields filled in, the error is the missing-column message or the
\* coercion's.
C11_ValidationFailureWritesNothing ==
    \A s \in sessions :
        (pc[s] \notin {"login", "form"} /\ req[s].file # NoFile
            /\ \/ PK \notin Range(req[s].file.columns)
               \/ \E i \in 1..Len(req[s].file.cells) :
                        req[s].file.cells[i].kind = "str") =>
            /\ pc[s] = "shown"
            /\ screen[s].kind = "error"
            /\ conn[s] = "none"
            /\ ~req[s].created /\ ~req[s].committed
            /\ req[s].statement = <<>> /\ req[s].sent = 0
            /\ TableRows(req[s].table_name) = req[s].rows0
            /\ req[s].table_name \in DataTables =>
                    tables[req[s].table_name].columns = req[s].columns0
            /\ registry = req[s].registry0
            /\ (~IsBlank(req[s].table_name) /\ ~IsBlank(req[s].uploader_name)) =>
                    \/ screen[s].msg = MsgNoApplicantId
                    \/ screen[s].failed_at = "astype"

\* C11 witness: a file with one numeric and one non-numeric applicant_id
\* was refused by the coercion while its target table existed with a row.
C11_Witness ==
    \E s \in sessions :
        /\ Ended(s)
        /\ screen[s].failed_at = "astype"
        /\ Len(req[s].file.cells) = 2
        /\ \E i \in 1..2 : req[s].file.cells[i].kind = "num"
        /\ req[s].rows0 # {}

\* ------------------------------------------------------------- a, b, a
\* One user uploads a one-row file to table a, then to b, then to a again,
\* while the database clock runs long enough to stamp each upload with a
\* second of its own.
SequenceTargets == <<"a", "b", "a">>
SequenceClock == MaxClock + 1
SequenceForm ==
    [file |-> [columns |-> IdAge, cells |-> <<Num(1)>>],
     table_name |-> "a", uploader_name |-> "ann"]

InitSequence ==
    InitWith(Workload("seq", SequenceForm, Len(SequenceTargets),
                      SequenceTargets, SequenceClock))

SpecSequence == InitSequence /\ [][Next]_vars

\* C12: after the uploads to a, b and a have all succeeded, the registry
\* listing the view page shows is the three entries newest first: the
\* second upload to a, then b, then the first upload to a.
C12_ListingNewestFirst ==
    \A s \in sessions :
        (Len(reports) = 3 /\ screen[s].kind = "view"
                          /\ Len(screen[s].listing) = Len(registry)) =>
            /\ Len(registry) = 3
            /\ \A i \in 1..3 : screen[s].listing[i] = registry[4 - i]

\* The tables of the uploads reported successful so far.
ReportedTables == {reports[i].table_name : i \in DOMAIN reports}

\* C13: the names the view page offers for preview are the distinct
\* table_name values of the registry (or none, when the query failed), and
\* each of them is the target of an upload that was reported successful.
C13_OfferedTablesWereIngested ==
    \A s \in sessions :
        /\ \/ screen[s].choices = {}
           \/ screen[s].choices = {registry[i].table_name : i \in DOMAIN registry}
        /\ screen[s].choices \subseteq ReportedTables

\* The messages the handlers show as they are.
FixedMessages ==
    {MsgNameRequired, MsgTableRequired, MsgNoApplicantId, MsgNoMatch,
     MsgValidateFailed, MsgDbError, MsgViewError}

\* What the sanitizer returns for the texts of the exceptions that reach
\* the handlers' `except Exception` branches.
SanitizedMessages == {MsgGeneric, MsgOperationFailed, ValueErrorText}

\* C14: an error shown by the upload handler or the view page is a fixed
\* message or a sanitized one, and no page shows an exception text that
\* quotes the server, the schema or a query.
C14_NoRawStorageText ==
    \A s \in sessions :
        /\ screen[s].msg \notin StorageErrorTexts
        /\ screen[s].kind = "error" =>
                screen[s].msg \in FixedMessages \cup SanitizedMessages

\* C14 witness: the preview of an offered table failed in pd.read_sql and
\* the page shows the sanitizer's replacement.
C14_Witness ==
    \E s \in sessions :
        /\ screen[s].kind = "error"
        /\ screen[s].failed_at = "read_sql"
        /\ screen[s].msg = MsgOperationFailed

\* The MySQL type the claims expect of a column of the uploaded files.
ExpectedType(col) ==
    CASE col \in {"applicant_id", "age", "row_count"} -> "INT"
      [] col = "income" -> "DOUBLE"
      [] OTHER -> "TEXT"

\* C15 as stated: an upload to a table that did not exist creates the
\* table before it inserts, with the file's columns, their types and
\* applicant_id as primary key, and then writes every row left after the
\* null-key drop, with all the file's columns.
C15_NewTableHoldsEveryRow ==
    \A s \in sessions :
        (pc[s] \notin {"login", "form"} /\ req[s].created /\ req[s].committed) =>
            /\ tables[req[s].table_name].columns = req[s].file.columns
            /\ req[s].added = Len(req[s].ids)
            /\ \A r \in TableRows(req[s].table_name) : r.written = req[s].file.columns

\* C15 amended: the table is created before any INSERT is sent, with the
\* file's columns in order, each with its inferred type, and applicant_id
\* as primary key; the committed INSERT then leaves one row for each
\* distinct applicant_id left after the null-key drop, written with all
\* the file's columns (a row repeating an earlier row's key is skipped).
C15_NewTableHoldsEveryKey ==
    \A s \in sessions :
        (pc[s] \notin {"login", "form", "ensure_registry", "check"}
            /\ req[s].file # NoFile /\ ~req[s].table_exists
            /\ req[s].table_name \in NewTables) =>
            /\ (req[s].statement # <<>> \/ req[s].sent > 0 \/ req[s].committed
                    \/ pc[s] \in {"insert", "commit", "register"}) => req[s].created
            /\ req[s].created =>
                LET tbl == tables[req[s].table_name]
                IN  /\ tbl.exists
                    /\ tbl.columns = req[s].file.columns
                    /\ tbl.types = [i \in 1..Len(tbl.columns) |->
                                        ExpectedType(tbl.columns[i])]
                    /\ tbl.primary_key = PK
            /\ (req[s].created /\ req[s].committed) =>
                /\ TableRows(req[s].table_name) =
                        {Row(req[s].ids[i], req[s].file.columns) :
                            i \in DOMAIN req[s].ids}
                /\ req[s].added = Cardinality({req[s].ids[i] : i \in DOMAIN req[s].ids})

\* C15 witness: a three-column file with one null key and one other row
\* was uploaded to a table that did not exist, and the upload succeeded.
C15_Witness ==
    \E s \in sessions :
        /\ Ended(s)
        /\ screen[s].kind = "success"
        /\ req[s].created
        /\ req[s].dropped = 1
        /\ req[s].added = 1
        /\ Len(req[s].file.columns) = 3

\* ------------------------------------------------------------- risk_batch1
\* A CSV with the columns applicant_id, age, income and five rows, the
\* third of which has no applicant_id; the other keys are 1, 2, 3, 4. It is
\* uploaded to risk_batch1, which does not exist.
IdAgeIncome == <<"applicant_id", "age", "income">>
BatchForm ==
    [file |-> [columns |-> IdAgeIncome,
               cells |-> <<Num(1), Num(2), NaN, Num(3), Num(4)>>],
     table_name |-> "risk_batch1", uploader_name |-> "ann"]

InitBatch == InitWith(Workload("only", BatchForm, 2, <<>>, MaxClock))

SpecBatch == InitBatch /\ [][Next]_vars

\* C16: the upload of that file to risk_batch1, found missing, when it
\* succeeds: reports 4 rows written and warns of 1 row dropped; the table
\* exists with the file's columns and applicant_id as primary key and holds
\* the 4 rows; the registry holds one entry for risk_batch1, with
\* row_count 4.
C16_RiskBatchScenario ==
    \A s \in sessions :
        (Ended(s) /\ screen[s].kind = "success" /\ ~req[s].table_exists) =>
            LET tbl == tables["risk_batch1"]
                entries == EntriesOf("risk_batch1")
            IN  /\ req[s].table_name = "risk_batch1"
                /\ screen[s].rows = 4
                /\ screen[s].warning = 1
                /\ req[s].created
                /\ tbl.exists
                /\ tbl.columns = IdAgeIncome
                /\ tbl.primary_key = "applicant_id"
                /\ Keys(tbl.rows) = {1, 2, 3, 4}
                /\ Cardinality(tbl.rows) = 4
                /\ Len(entries) = 1
                /\ entries[1].row_count = 4
                /\ entries[1].uploaded_by = "ann"

\* C16 witness: the upload to risk_batch1 has succeeded on a table it
\* created.
C16_Witness ==
    \E s \in sessions :
        /\ Ended(s)
        /\ screen[s].kind = "success"
        /\ req[s].created
        /\ req[s].table_name = "risk_batch1"
        /\ req[s].submitted = 5

\* ------------------------------------------------------------- column types
\* One CSV column taken from the uploaded text to the column type of the
\* table created for it: read_csv gives it a dtype, create_table_from_df
\* (and ensure_table_exists) turn the dtype into a MySQL type.
InitInference ==
    /\ InitDatabase({"s1"}, Workload("none", NoForm, 0, <<>>, 0))
    /\ \E values \in CsvColumns :
           inference = [NoInference EXCEPT !.values = values, !.stage = "csv"]

ReadCsv ==
    /\ inference.stage = "csv"
    /\ inference' = [inference EXCEPT !.stage = "frame",
                                      !.dtype = read_csv_dtype(inference.values)]
    /\ UNCHANGED <<sessions, workload, dbVars, authVars, pc, req, conn, txn,
                   screen, nUploads, reports>>

InferColumnType ==
    /\ inference.stage = "frame"
    /\ inference' = [inference EXCEPT !.stage = "typed",
                                      !.mysql_type = infer_mysql_type(inference.dtype),
                                      !.extras_type = type_map(inference.dtype)]
    /\ UNCHANGED <<sessions, workload, dbVars, authVars, pc, req, conn, txn,
                   screen, nUploads, reports>>

NextInference ==
    \/ ReadCsv
    \/ InferColumnType

SpecInference == InitInference /\ [][NextInference]_vars

\* The type the rules name for a column: the first of integer, float,
\* boolean, timestamp that every non-null value parses as; TEXT for a
\* column that matches none, or holds no value at all.
RuleType(values) ==
    LET present == Range(values) \ {"null"}
    IN  IF present = {} THEN "TEXT"
        ELSE IF present = {"integer"} THEN "INT"
        ELSE IF present \subseteq {"integer", "decimal"} THEN "DOUBLE"
        ELSE IF present = {"boolean"} THEN "BOOLEAN"
        ELSE IF present = {"timestamp"} THEN "DATETIME"
        ELSE "TEXT"

\* C17: the type inferred for a column is one of INT, DOUBLE, BOOLEAN,
\* DATETIME, TEXT, and it is the one the rules name for the column's
\* values: integer, float, boolean, timestamp in this order, TEXT for
\* anything else and for a column of nulls.
C17_TypeFollowsValueRules ==
    inference.stage = "typed" =>
        /\ inference.mysql_type \in {"INT", "DOUBLE", "BOOLEAN", "DATETIME", "TEXT"}
        /\ inference.mysql_type = RuleType(inference.values)

\* ------------------------------------------------------------- two sessions
\* Two browser sessions, each with its own script run and connection,
\* upload to table a at the same time.
InitConcurrent ==
    InitSessions(AllSessions, Workload("concurrent", NoForm, 2, <<>>, MaxClock))

SpecConcurrent == InitConcurrent /\ [][Next]_vars

\* The steps at which the connection or the server, not the upload, fails.
StorageFailures == ConnectionFailures \cup {"check", "ensure_registry"}

\* C18: two sessions have uploaded files of the same columns to the same
\* table, the files share an applicant_id, and the storage failed neither:
\* both uploads end in success, the table holds one row for every key of
\* either file, and no key twice.
C18_SameKeyBothSucceed ==
    \A s, o \in sessions :
        (/\ s # o /\ Ended(s) /\ Ended(o)
         /\ req[s].table_name = req[o].table_name
         /\ req[s].table_name \in NewTables
         /\ req[s].file.columns = req[o].file.columns
         /\ Range(req[s].ids) \cap Range(req[o].ids) # {}
         /\ screen[s].failed_at \notin StorageFailures
         /\ screen[o].failed_at \notin StorageFailures) =>
            LET rows == tables[req[s].table_name].rows
            IN  /\ screen[s].kind = "success"
                /\ screen[o].kind = "success"
                /\ Keys(rows) = Range(req[s].ids) \cup Range(req[o].ids)
                /\ Cardinality(rows) = Cardinality(Keys(rows))

\* C19: two sessions have uploaded files with no applicant_id in common to
\* the same table, each found the table missing when it checked, and the
\* storage failed neither: exactly one of them created the table, both
\* uploads end in success, and both sent an INSERT that names only columns
\* of the table.
C19_CreationRaceIsHarmless ==
    \A s, o \in sessions :
        (/\ s # o /\ Ended(s) /\ Ended(o)
         /\ req[s].table_name = req[o].table_name
         /\ req[s].table_name \in NewTables
         /\ ~req[s].table_exists /\ ~req[o].table_exists
         /\ Range(req[s].ids) \cap Range(req[o].ids) = {}
         /\ screen[s].failed_at \notin StorageFailures
         /\ screen[o].failed_at \notin StorageFailures) =>
            LET t == req[s].table_name
            IN  /\ tables[t].exists
                /\ req[s].created # req[o].created
                /\ \A x \in {s, o} :
                      /\ screen[x].kind = "success"
                      /\ Range(req[x].statement) \subseteq Range(tables[t].columns)

\* C20: a step that shows the View Uploaded Data page, or the preview of a
\* table, leaves the registry's entries and every target table as they
\* were; the page shows the registry listing and its distinct names, and
\* for an accessor whose query failed the empty listing or no names,
\* not an error.
C20_RegistryReadIsPure ==
    [][\A s \in sessions :
          (screen'[s] # screen[s] /\ screen'[s].kind \in {"view", "preview"}) =>
              /\ registry' = registry
              /\ tables' = tables
              /\ screen'[s].kind = "view" =>
                    /\ screen'[s].msg = ""
                    /\ screen'[s].listing \in
                          IF "get_registry_data" \in screen'[s].logged
                          THEN {<<>>}
                          ELSE Listings(registry, DOMAIN registry)
                    /\ screen'[s].choices =
                          IF "get_registered_tables" \in screen'[s].logged
                          THEN {}
                          ELSE {registry[i].table_name : i \in DOMAIN registry}]_vars

\* C20 witness: the page is shown with an empty listing because the
\* listing query failed, while the registry holds an entry and the names
\* query answered.
C20_Witness ==
    \E s \in sessions :
        /\ screen[s].kind = "view"
        /\ screen[s].logged = {"get_registry_data"}
        /\ screen[s].listing = <<>>
        /\ registry # <<>>
        /\ screen[s].choices # {}

\* A session that is not logged in is at the login form, with no user
\* name, no upload request and no connection.
LoggedOut(s) ==
    /\ pc[s] = "login"
    /\ screen[s].kind = "login"
    /\ username[s] = NoneUser
    /\ req[s] = NoReq
    /\ conn[s] = "none"
    /\ txn[s] = NoTxn

\* C21: a session that is not authenticated is at the login form and
\* stays there with every step but a login; it becomes authenticated only
\* by submitting the configured username and password, both non-empty; and
\* a step that opens a connection, creates a table, writes rows or a
\* registry entry, or shows the registry or a table is taken by a session
\* that is authenticated before and after it.
C21_NothingWithoutLogin ==
    [][/\ \A s \in sessions :
             /\ ~authenticated[s] => LoggedOut(s)
             /\ ~authenticated'[s] => LoggedOut(s)'
             /\ (~authenticated[s] /\ authenticated'[s]) =>
                    /\ AppUser # "" /\ AppPassword # ""
                    /\ username'[s] = AppUser
                    /\ \E p \in PasswordInputs :
                          p = AppPassword /\ LoginSubmit(s, AppUser, p)
             /\ (authenticated[s] /\ ~authenticated'[s]) => username'[s] = NoneUser
             /\ (\/ conn'[s] # conn[s]
                 \/ req'[s] # req[s]
                 \/ txn'[s] # txn[s]
                 \/ screen'[s].kind \in {"view", "preview", "success"}) =>
                    authenticated[s]
       /\ dbVars' # dbVars =>
             \E s \in sessions : authenticated[s] /\ authenticated'[s]]_vars

\* C21 witness: a session has uploaded a row and then signed out; it is
\* back at the login form.
C21_Witness ==
    \E s \in sessions :
        /\ ~authenticated[s]
        /\ pc[s] = "login"
        /\ registry # <<>>
        /\ \E t \in NewTables : tables[t].rows # {}

\* C22: when an upload run has ended, in success or in an error that is
\* not a failure of the storage itself, the connection the run opened has
\* been closed.
C22_ConnectionClosedAtEnd ==
    \A s \in sessions :
        (Ended(s) /\ screen[s].failed_at \notin StorageFailures) =>
            conn[s] \in {"none", "closed"}

====
